---- MODULE Spec2Model ----
(***************************************************************************)
(* Model of pyflink/ml/api/base.py: the Pipeline composition protocol.     *)
(*                                                                         *)
(* The heap is a sequence of objects (an object's identity is its index).  *)
(* Pipeline.fit and Pipeline.transform call into their stages, which may   *)
(* be Pipelines again, so a running call is a stack of frames, one per     *)
(* active Pipeline.fit / Pipeline.transform, and every stage call is one   *)
(* step.  Leaf stage computations belong to the external engine: a leaf    *)
(* transform maps a table to a new table that remembers the stage that     *)
(* produced it, a leaf fit yields a fresh Model that remembers its         *)
(* estimator and its training table, and either may raise.                 *)
(***************************************************************************)
EXTENDS Integers, Sequences, FiniteSets, TLC

VARIABLES heap, stack, calls, outcome

vars == <<heap, stack, calls, outcome>>

\* ------------------------------------------------------------- bounds
\* stage references the caller may have stored in all pipelines together
MaxSlots == 3
\* fit is started only while at most this many objects are live
MaxLive == 5
\* deepest nesting of active Pipeline.fit / Pipeline.transform frames
MaxDepth == 2

\* the tables a caller passes to fit / transform
Inputs == {"X"}

\* ------------------------------------------------------------- objects
NoTable == [src |-> "none", via |-> <<>>]

Table(x) == [src |-> x, via |-> <<>>]

\* class Transformer(PipelineStage), a concrete subclass
NewTransformer ==
    [kind |-> "Transformer", stages |-> <<>>, last_estimator_index |-> -1,
     est |-> 0, fit_on |-> NoTable]

\* class Estimator(PipelineStage), a concrete subclass
NewEstimator ==
    [kind |-> "Estimator", stages |-> <<>>, last_estimator_index |-> -1,
     est |-> 0, fit_on |-> NoTable]

\* a direct subclass of PipelineStage: neither Estimator nor Transformer
NewPipelineStage ==
    [kind |-> "PipelineStage", stages |-> <<>>, last_estimator_index |-> -1,
     est |-> 0, fit_on |-> NoTable]

\* class Model(Transformer): what Estimator.fit of estimator e returns on table x
NewModel(e, x) ==
    [kind |-> "Model", stages |-> <<>>, last_estimator_index |-> -1,
     est |-> e, fit_on |-> x]

\* Pipeline.__init__ before any stage is appended
EmptyPipeline ==
    [kind |-> "Pipeline", stages |-> <<>>, last_estimator_index |-> -1,
     est |-> 0, fit_on |-> NoTable]

\* isinstance(stage, Pipeline)
IsPipeline(h, s) == h[s].kind = "Pipeline"

\* isinstance(stage, Estimator): class Pipeline(Estimator, Model, Transformer)
IsEstimator(h, s) == h[s].kind \in {"Estimator", "Pipeline"}

\* isinstance(stage, Transformer)
IsTransformer(h, s) == h[s].kind \in {"Transformer", "Model", "Pipeline"}

Pipelines(h) == {p \in DOMAIN h : IsPipeline(h, p)}

\* ------------------------------------------------------------- Pipeline
\* need_fit with the comparison off by one
need_fit_positive(h, p) == h[p].last_estimator_index > 0

need_fit(h, p) == h[p].last_estimator_index >= 0

\* classification that looks at leaf stages only: a nested Pipeline never counts
is_stage_need_fit_leaf_only(h, s) == ~IsPipeline(h, s) /\ IsEstimator(h, s)

\* classification by class alone: every Estimator instance, Pipelines included
is_stage_need_fit_by_class(h, s) == IsEstimator(h, s)

is_stage_need_fit(h, s) ==
    \/ IsPipeline(h, s) /\ need_fit(h, s)
    \/ ~IsPipeline(h, s) /\ IsEstimator(h, s)

\* append_stage with the check made after the stage was stored
append_stage_late_check(h, p, s) ==
    LET stored == [h EXCEPT ![p].stages = Append(@, s)]
    IN  IF is_stage_need_fit(h, s)
        THEN [raised |-> FALSE,
              heap |-> [stored EXCEPT ![p].last_estimator_index = Len(h[p].stages)]]
        ELSE [raised |-> ~IsTransformer(h, s), heap |-> stored]

\* append_stage that moves the index for every stage it accepts
append_stage_always_marks(h, p, s) ==
    IF ~is_stage_need_fit(h, s) /\ ~IsTransformer(h, s)
    THEN [raised |-> TRUE, heap |-> h]
    ELSE [raised |-> FALSE,
          heap |-> [h EXCEPT ![p].last_estimator_index = Len(h[p].stages),
                             ![p].stages = Append(@, s)]]

\* append_stage that reads len(self.stages) after the stage was stored
append_stage_index_after(h, p, s) ==
    IF is_stage_need_fit(h, s)
    THEN [raised |-> FALSE,
          heap |-> [h EXCEPT ![p].last_estimator_index = Len(h[p].stages) + 1,
                             ![p].stages = Append(@, s)]]
    ELSE IF ~IsTransformer(h, s)
    THEN [raised |-> TRUE, heap |-> h]
    ELSE [raised |-> FALSE, heap |-> [h EXCEPT ![p].stages = Append(@, s)]]

\* append_stage: the heap after the call and whether it raised
append_stage(h, p, s) ==
    IF is_stage_need_fit(h, s)
    THEN [raised |-> FALSE,
          heap |-> [h EXCEPT ![p].last_estimator_index = Len(h[p].stages),
                             ![p].stages = Append(@, s)]]
    ELSE IF ~IsTransformer(h, s)
    THEN [raised |-> TRUE, heap |-> h]
    ELSE [raised |-> FALSE, heap |-> [h EXCEPT ![p].stages = Append(@, s)]]

RECURSIVE append_all(_, _, _)
\* the loop of __init__: append_stage for each stage in order
append_all(h, p, ss) ==
    IF ss = <<>> THEN [raised |-> FALSE, heap |-> h]
    ELSE LET r == append_stage(h, p, Head(ss))
         IN  IF r.raised THEN r ELSE append_all(r.heap, p, Tail(ss))

\* Pipeline(stages): a new object, the stages appended one by one
NewPipeline(h, ss) ==
    LET id == Len(h) + 1
        r  == append_all(Append(h, EmptyPipeline), id, ss)
    IN  [raised |-> r.raised, heap |-> r.heap, id |-> id]

\* ------------------------------------------------------------- state
Init ==
    /\ heap = <<NewTransformer, NewEstimator, NewPipelineStage,
                EmptyPipeline, EmptyPipeline>>
    /\ stack = <<>>
    /\ calls = <<>>
    /\ outcome = [op |-> "none", self |-> 0, arg |-> 0, input |-> NoTable,
                  status |-> "none", value |-> 0, table |-> NoTable, base |-> 0]

Idle == stack = <<>>

RECURSIVE Slots(_, _)
\* the stage references held by the first n objects of the heap
Slots(h, n) == IF n = 0 THEN 0 ELSE Len(h[n].stages) + Slots(h, n - 1)

\* caller: pipeline.append_stage(stage)
AppendStage(p, s) ==
    /\ Idle
    /\ IsPipeline(heap, p)
    /\ Slots(heap, Len(heap)) < MaxSlots
    /\ LET r == append_stage(heap, p, s)
       IN  /\ heap' = r.heap
           /\ outcome' = [op |-> "append_stage", self |-> p, arg |-> s,
                          input |-> NoTable,
                          status |-> IF r.raised THEN "InvalidStage" ELSE "ok",
                          value |-> IF r.raised THEN 0 ELSE p,
                          table |-> NoTable, base |-> Len(heap)]
    /\ calls' = <<>>
    /\ UNCHANGED stack

\* ------------------------------------------------------------- frames
\* one active Pipeline.fit: its loop index i, its local input, the list
\* transform_stages, the fitted stage t and where the loop body stands
FitFrame(p, x, e) ==
    [op |-> "fit", self |-> p, i |-> 0, input |-> x, transform_stages |-> <<>>,
     pc |-> "loop", t |-> 0, ev |-> e]

\* Pipeline.transform under a bug: the first stage is skipped
TransformFrame_from_second(p, x, e) ==
    [op |-> "transform", self |-> p, i |-> 1, input |-> x,
     transform_stages |-> <<>>, pc |-> "loop", t |-> 0, ev |-> e]

\* one active Pipeline.transform: its position in self.stages and its input
TransformFrame(p, x, e) ==
    [op |-> "transform", self |-> p, i |-> 0, input |-> x,
     transform_stages |-> <<>>, pc |-> "loop", t |-> 0, ev |-> e]

Top == stack[Len(stack)]

Below == SubSeq(stack, 1, Len(stack) - 1)

\* a call made on a stage, as the log keeps it
Event(o, s, x) ==
    [op |-> o, stage |-> s, by |-> Top.self, at |-> Top.i, input |-> x,
     depth |-> Len(stack), out |-> NoTable, res |-> 0]

\* what a leaf Transformer or Model s makes of table x
Apply(s, x) == [x EXCEPT !.via = Append(@, s)]

\* the stage of the current loop iteration
Cur(f) == heap[f.self].stages[f.i + 1]

AtStage(f) == f.pc = "loop" /\ f.i < Len(heap[f.self].stages)

\* the loop's end test off by one: the index must pass the length
AtEnd_past(f) == f.pc = "loop" /\ f.i > Len(heap[f.self].stages)

AtEnd(f) == f.pc = "loop" /\ f.i >= Len(heap[f.self].stages)

\* an exception under a bug: fit swallows it and hands back what it has
Abort_partial(status) ==
    LET r == NewPipeline(heap, stack[1].transform_stages)
    IN  /\ stack' = <<>>
        /\ heap' = r.heap
        /\ outcome' = [outcome EXCEPT !.status = "ok", !.value = r.id]

\* an exception leaves every active frame; what the call allocated is garbage
Abort(status) ==
    /\ stack' = <<>>
    /\ heap' = SubSeq(heap, 1, outcome.base)
    /\ outcome' = [outcome EXCEPT !.status = status]

\* fit, line 246, under a bug: the unfitted stage is recorded
Recorded_unfitted(f, t) ==
    [f EXCEPT !.t = t, !.transform_stages = Append(@, Cur(f)), !.pc = "transform"]

\* fit, line 246: transform_stages.append(t)
Recorded(f, t) ==
    [f EXCEPT !.t = t, !.transform_stages = Append(@, t), !.pc = "transform"]

\* line 247 under a bug: the result of the transform is dropped
Transformed_input_kept(f, y) == [f EXCEPT !.i = @ + 1, !.pc = "loop"]

\* the caller's frame once the transform it called has returned y:
\* fit, line 247 (input = ...; next i); transform, line 264
Transformed(f, y) == [f EXCEPT !.input = y, !.i = @ + 1, !.pc = "loop"]

\* t.transform(t_env, x) called by the top frame
StageTransform(t, x) ==
    LET e == Event("transform", t, x)
    IN  IF IsPipeline(heap, t)
        THEN IF need_fit(heap, t)
             THEN Abort("NotFitted") /\ calls' = Append(calls, e)
             ELSE /\ Len(stack) < MaxDepth
                  /\ stack' = Append(stack, TransformFrame(t, x, Len(calls) + 1))
                  /\ calls' = Append(calls, e)
                  /\ UNCHANGED <<heap, outcome>>
        ELSE IF IsTransformer(heap, t)
        THEN /\ stack' = Append(Below, Transformed(Top, Apply(t, x)))
             /\ calls' = Append(calls, [e EXCEPT !.out = Apply(t, x)])
             /\ UNCHANGED <<heap, outcome>>
        ELSE Abort("AttributeError") /\ calls' = Append(calls, e)

\* ------------------------------------------------------------- calls
\* fit, line 240, under a bug: every stage is taken to lie in the fitted prefix
InFittedPrefix_always(f) == TRUE

\* fit, line 240, under a bug: the last estimator itself is left out
InFittedPrefix_strict(f) == f.i < heap[f.self].last_estimator_index

\* fit, line 240: i <= self.last_estimator_index
InFittedPrefix(f) == f.i <= heap[f.self].last_estimator_index

\* caller: pipeline.fit(t_env, input)
CallFit(p, x) ==
    /\ Idle
    /\ IsPipeline(heap, p)
    /\ Len(heap) <= MaxLive
    /\ stack' = <<FitFrame(p, Table(x), 0)>>
    /\ calls' = <<>>
    /\ outcome' = [op |-> "fit", self |-> p, arg |-> 0, input |-> Table(x),
                   status |-> "running", value |-> 0, table |-> NoTable,
                   base |-> Len(heap)]
    /\ UNCHANGED heap

\* transform without the need_fit test of lines 261-262
CallTransform_unchecked(p, x) ==
    /\ Idle
    /\ IsPipeline(heap, p)
    /\ stack' = <<TransformFrame(p, Table(x), 0)>>
    /\ calls' = <<>>
    /\ outcome' = [op |-> "transform", self |-> p, arg |-> 0, input |-> Table(x),
                   status |-> "running", value |-> 0, table |-> NoTable,
                   base |-> Len(heap)]
    /\ UNCHANGED heap

\* caller: pipeline.transform(t_env, input), lines 261-262
CallTransform(p, x) ==
    /\ Idle
    /\ IsPipeline(heap, p)
    /\ stack' = IF need_fit(heap, p) THEN <<>>
                ELSE <<TransformFrame(p, Table(x), 0)>>
    /\ calls' = <<>>
    /\ outcome' = [op |-> "transform", self |-> p, arg |-> 0, input |-> Table(x),
                   status |-> IF need_fit(heap, p) THEN "NotFitted" ELSE "running",
                   value |-> 0, table |-> NoTable, base |-> Len(heap)]
    /\ UNCHANGED heap

\* fit, lines 239-246 and 249: one iteration up to transform_stages.append
FitStage ==
    /\ ~Idle /\ Top.op = "fit" /\ AtStage(Top)
    /\ LET f == Top
           s == Cur(f)
       IN  IF InFittedPrefix(f)
           THEN IF is_stage_need_fit(heap, s)
                THEN IF IsPipeline(heap, s)
                     THEN /\ Len(stack) < MaxDepth
                          /\ stack' = Append(stack, FitFrame(s, f.input, Len(calls) + 1))
                          /\ calls' = Append(calls, Event("fit", s, f.input))
                          /\ UNCHANGED <<heap, outcome>>
                     ELSE /\ heap' = Append(heap, NewModel(s, f.input))
                          /\ stack' = Append(Below, Recorded(f, Len(heap) + 1))
                          /\ calls' = Append(calls,
                                 [Event("fit", s, f.input) EXCEPT !.res = Len(heap) + 1])
                          /\ UNCHANGED outcome
                ELSE /\ stack' = Append(Below, Recorded(f, s))
                     /\ UNCHANGED <<heap, calls, outcome>>
           ELSE /\ stack' = Append(Below,
                       [f EXCEPT !.transform_stages = Append(@, s), !.i = @ + 1])
                /\ UNCHANGED <<heap, calls, outcome>>

\* fit, line 247: input = t.transform(t_env, input)
FitTransform ==
    /\ ~Idle /\ Top.op = "fit" /\ Top.pc = "transform"
    /\ StageTransform(Top.t, Top.input)

\* fit, line 250, under a bug: self takes the fitted stages as well
FitResult_in_place(h, f) ==
    LET r == NewPipeline(h, f.transform_stages)
    IN  [r EXCEPT !.heap = [r.heap EXCEPT ![f.self].stages = f.transform_stages]]

\* fit, line 250: return Pipeline(transform_stages)
\* fit under a bug: it also marks the receiver as fitted
FitResult_marks_fitted(h, f) ==
    LET r == NewPipeline(h, f.transform_stages)
    IN  [r EXCEPT !.heap[f.self].last_estimator_index = -1]

FitResult(h, f) == NewPipeline(h, f.transform_stages)

FitReturn ==
    /\ ~Idle /\ Top.op = "fit" /\ AtEnd(Top)
    /\ LET r == FitResult(heap, Top)
       IN  IF r.raised
           THEN Abort("InvalidStage") /\ UNCHANGED calls
           ELSE /\ heap' = r.heap
                /\ IF Len(stack) = 1
                   THEN /\ stack' = <<>>
                        /\ outcome' = [outcome EXCEPT !.status = "ok", !.value = r.id]
                        /\ UNCHANGED calls
                   ELSE /\ stack' = Append(SubSeq(stack, 1, Len(stack) - 2),
                                           Recorded(stack[Len(stack) - 1], r.id))
                        /\ calls' = [calls EXCEPT ![Top.ev].res = r.id]
                        /\ UNCHANGED outcome

\* transform, line 264: input = s.transform(t_env, input)
TransformStage ==
    /\ ~Idle /\ Top.op = "transform" /\ AtStage(Top)
    /\ StageTransform(Cur(Top), Top.input)

\* transform, line 265: return input
TransformReturn ==
    /\ ~Idle /\ Top.op = "transform" /\ AtEnd(Top)
    /\ IF Len(stack) = 1
       THEN /\ stack' = <<>>
            /\ outcome' = [outcome EXCEPT !.status = "ok", !.table = Top.input]
            /\ UNCHANGED calls
       ELSE /\ stack' = Append(SubSeq(stack, 1, Len(stack) - 2),
                               Transformed(stack[Len(stack) - 1], Top.input))
            /\ calls' = [calls EXCEPT ![Top.ev].out = Top.input]
            /\ UNCHANGED outcome
    /\ UNCHANGED heap

\* the stage call the top frame is about to make, when the stage is a leaf
LeafCall ==
    IF Top.op = "fit" /\ Top.pc = "transform"
    THEN IF IsPipeline(heap, Top.t) THEN <<>>
         ELSE <<Event("transform", Top.t, Top.input)>>
    ELSE IF ~AtStage(Top) \/ IsPipeline(heap, Cur(Top)) THEN <<>>
    ELSE IF Top.op = "transform"
    THEN <<Event("transform", Cur(Top), Top.input)>>
    ELSE IF InFittedPrefix(Top) /\ is_stage_need_fit(heap, Cur(Top))
    THEN <<Event("fit", Cur(Top), Top.input)>>
    ELSE <<>>

\* the external engine fails inside a leaf stage's fit or transform
StageRaises ==
    /\ ~Idle
    /\ LeafCall # <<>>
    /\ calls' = calls \o LeafCall
    /\ Abort("StageError")

Next ==
    \/ \E p \in DOMAIN heap, s \in DOMAIN heap : AppendStage(p, s)
    \/ \E p \in DOMAIN heap, x \in Inputs : CallFit(p, x)
    \/ \E p \in DOMAIN heap, x \in Inputs : CallTransform(p, x)
    \/ FitStage
    \/ FitTransform
    \/ FitReturn
    \/ TransformStage
    \/ TransformReturn
    \/ StageRaises

Spec == Init /\ [][Next]_vars

\* ------------------------------------------------------------- claims
Last(q) == q[Len(q)]

\* this step is a call of Pipeline.transform on p, by the caller or by a
\* pipeline that holds p as a stage
TransformCalledOn(p) ==
    \/ /\ Idle
       /\ outcome'.op = "transform" /\ outcome'.self = p
       /\ outcome' # outcome
    \/ /\ ~Idle
       /\ Len(calls') = Len(calls) + 1
       /\ Last(calls').op = "transform" /\ Last(calls').stage = p

\* this step is a call of append_stage(s) on p by the caller
AppendCalled(p, s) ==
    /\ Idle
    /\ stack' = <<>>
    /\ outcome'.op = "append_stage" /\ outcome'.self = p /\ outcome'.arg = s

\* the objects that exist before and after the step are the same objects
SameObjects == \A o \in DOMAIN heap \cap DOMAIN heap' : heap'[o] = heap[o]

\* C1: a call of transform on a pipeline whose need_fit() is true ends the
\* whole call with the not-fitted error, no frame of that transform ever
\* runs (so none of its stages is invoked), and no object that outlives the
\* call changes.
C1_TransformNeedsFit ==
    [][\A p \in Pipelines(heap) :
          need_fit(heap, p) /\ TransformCalledOn(p)
          => /\ outcome'.status = "NotFitted"
             /\ stack' = <<>>
             /\ \A n \in DOMAIN calls' : calls'[n].by = p => n \in DOMAIN calls
             /\ SameObjects]_vars

\* C1 witness: transform was refused on a pipeline holding two stages
C1_Witness ==
    /\ Idle /\ outcome.op = "transform" /\ outcome.status = "NotFitted"
    /\ Len(heap[outcome.self].stages) >= 2
    /\ calls = <<>>

\* a stage that is an Estimator and no Pipeline
LeafEstimator(h, s) == ~IsPipeline(h, s) /\ IsEstimator(h, s)

HasStage(h, p, P(_)) == \E i \in DOMAIN h[p].stages : P(h[p].stages[i])

\* C2 as stated: a pipeline holding a stage that is an instance of Estimator
\* (a nested Pipeline is one) has need_fit() true.
C2_Original ==
    \A p \in Pipelines(heap) :
        HasStage(heap, p, LAMBDA s : IsEstimator(heap, s)) => need_fit(heap, p)

\* C2 amended: a pipeline holding a non-Pipeline Estimator has need_fit()
\* true; appending a stage that needs fitting at that moment (to a pipeline
\* or to a pipeline under construction) makes need_fit() true; need_fit()
\* never turns false again; and transform on such a pipeline always raises
\* the not-fitted error.
C2_EstimatorNeedsFit ==
    [][\A p \in Pipelines(heap') :
          /\ HasStage(heap', p, LAMBDA s : LeafEstimator(heap', s))
                => need_fit(heap', p)
          /\ p \in DOMAIN heap =>
                /\ need_fit(heap, p) => need_fit(heap', p)
                /\ \A s \in DOMAIN heap :
                      AppendCalled(p, s) /\ is_stage_need_fit(heap, s)
                      => need_fit(heap', p)
                /\ need_fit(heap, p) /\ TransformCalledOn(p)
                      => outcome'.status = "NotFitted"
          /\ p \notin DOMAIN heap =>
                (HasStage(heap', p, LAMBDA s : s \in DOMAIN heap
                                              /\ is_stage_need_fit(heap, s))
                 => need_fit(heap', p))]_vars

\* C2 witness: transform was refused on a pipeline that holds an Estimator
C2_Witness ==
    /\ Idle /\ outcome.op = "transform" /\ outcome.status = "NotFitted"
    /\ HasStage(heap, outcome.self, LAMBDA s : LeafEstimator(heap, s))

RECURSIVE Reach(_, _, _)
\* the objects reached from the set S through at most n stage references
Reach(h, S, n) ==
    IF n = 0 THEN S
    ELSE Reach(h, S \cup
                  UNION {{h[o].stages[i] : i \in DOMAIN h[o].stages} : o \in S},
               n - 1)

\* no Estimator other than Pipelines among the stages of p, at any depth
EstimatorFree(h, p) ==
    \A s \in Reach(h, {p}, Len(h)) : ~LeafEstimator(h, s)

\* C3: a pipeline with no Estimator at any nesting depth has need_fit()
\* false; fit on it makes no stage call and returns a new pipeline with the
\* same stage references in the same order; transform on it never ends with
\* the not-fitted error.
C3_EstimatorFree ==
    \A p \in Pipelines(heap) :
        EstimatorFree(heap, p) =>
            /\ ~need_fit(heap, p)
            /\ outcome.op = "fit" /\ outcome.self = p =>
                  /\ calls = <<>>
                  /\ outcome.status \in {"running", "ok"}
                  /\ outcome.status = "ok" =>
                        /\ outcome.value \in Pipelines(heap)
                        /\ heap[outcome.value].stages = heap[p].stages
            /\ outcome.op = "transform" /\ outcome.self = p =>
                  outcome.status # "NotFitted"

\* C3 witness: fit returned for a pipeline of two stages, one of them a
\* nested pipeline, with no Estimator anywhere
C3_Witness ==
    /\ Idle /\ outcome.op = "fit" /\ outcome.status = "ok"
    /\ EstimatorFree(heap, outcome.self)
    /\ Len(heap[outcome.self].stages) >= 2
    /\ HasStage(heap, outcome.self, LAMBDA s : IsPipeline(heap, s))

\* C4: fit on a pipeline without Estimator returns the pipeline itself.
C4_FitReturnsSelf ==
    outcome.op = "fit" /\ outcome.status = "ok"
    /\ EstimatorFree(heap, outcome.self)
    => outcome.value = outcome.self

\* C5: append_stage of a stage that neither needs fitting nor is a
\* Transformer raises the invalid-stage error and changes no object.
C5_InvalidStageAtomic ==
    [][\A p \in Pipelines(heap), s \in DOMAIN heap :
          AppendCalled(p, s)
          /\ ~is_stage_need_fit(heap, s) /\ ~IsTransformer(heap, s)
          => outcome'.status = "InvalidStage" /\ heap' = heap]_vars

\* C5 witness: the invalid stage was refused by a pipeline that already
\* holds stages and needs fitting
C5_Witness ==
    /\ Idle /\ outcome.op = "append_stage" /\ outcome.status = "InvalidStage"
    /\ ~is_stage_need_fit(heap, outcome.arg) /\ ~IsTransformer(heap, outcome.arg)
    /\ Len(heap[outcome.self].stages) >= 1
    /\ need_fit(heap, outcome.self)

\* C6: no step of a fit call changes or removes an object that existed when
\* the call began, whether the call returns or a stage call raises.
C6_FitKeepsObjects ==
    [][outcome'.op = "fit"
       => SameObjects /\ 1..outcome'.base \subseteq DOMAIN heap']_vars

\* C6 witness: fit returned for a pipeline of two stages that needed fitting
C6_Witness ==
    /\ Idle /\ outcome.op = "fit" /\ outcome.status = "ok"
    /\ need_fit(heap, outcome.self)
    /\ Len(heap[outcome.self].stages) >= 2

\* ---- the log of one activation of Pipeline.fit / Pipeline.transform:
\* activation 0 is the caller's call, activation c > 0 the one that the
\* logged call c on a nested pipeline started
ActDepth(c) == IF c = 0 THEN 1 ELSE calls[c].depth + 1

ActSelf(c) == IF c = 0 THEN outcome.self ELSE calls[c].stage

ActInput(c) == IF c = 0 THEN outcome.input ELSE calls[c].input

ActOp(c) == IF c = 0 THEN outcome.op ELSE calls[c].op

\* the last logged call that belongs to activation c or to one below it
ActEnd(c) ==
    LET later == {m \in DOMAIN calls : m > c /\ calls[m].depth < ActDepth(c)}
    IN  IF later = {} THEN Len(calls)
        ELSE (CHOOSE m \in later : \A k \in later : m <= k) - 1

\* the stage calls activation c itself made, up to the logged call n
ActCalls(c, n) ==
    SelectSeq(SubSeq(calls, c + 1, n), LAMBDA e : e.depth = ActDepth(c))

Activations(o) ==
    {c \in {0} \cup DOMAIN calls :
        /\ ActOp(c) = o
        /\ ActSelf(c) \in DOMAIN heap
        /\ IsPipeline(heap, ActSelf(c))}

\* the value an activation returned: a fitted pipeline, or 0 (after an
\* exception the log may name a result that no longer exists)
ActValue(c) ==
    IF c = 0 THEN (IF outcome.status = "ok" THEN outcome.value ELSE 0)
    ELSE calls[c].res

C8_FittedNeedsNoFit ==
    outcome.op = "fit" /\ outcome.status = "ok"
    => ~need_fit(heap, outcome.value)

RECURSIVE Through(_, _, _, _)
\* the table t.transform makes of x: a leaf adds itself, a pipeline passes
\* x through its stages in order (n bounds the nesting that is followed)
Through(h, t, x, n) ==
    IF ~IsPipeline(h, t) THEN Apply(t, x)
    ELSE IF n = 0 \/ h[t].stages = <<>> THEN x
    ELSE LET ThroughStages[k \in 0..Len(h[t].stages)] ==
                 IF k = 0 THEN x
                 ELSE Through(h, h[t].stages[k], ThroughStages[k - 1], n - 1)
         IN  ThroughStages[Len(h[t].stages)]

\* the calls of transform among the stage calls made
Transforms(made) == SelectSeq(made, LAMBDA e : e.op = "transform")

\* the stage that stands at index j of transform_stages when the logged
\* fit call n of activation c is made
FittedVersion(c, j, made) ==
    IF \E m \in DOMAIN made : made[m].op = "fit" /\ made[m].at = j
    THEN made[CHOOSE m \in DOMAIN made :
                  made[m].op = "fit" /\ made[m].at = j].res
    ELSE heap[ActSelf(c)].stages[j + 1]

\* C9: in every activation of Pipeline.fit, the table passed to the fit of
\* the stage at index i is the activation's input passed through the fitted
\* versions of the stages 0..i-1, one transform each, in index order.
C9_FitInput ==
    \A c \in Activations("fit") :
        \A n \in (c + 1)..ActEnd(c) :
            calls[n].depth = ActDepth(c) /\ calls[n].op = "fit" =>
                LET made  == ActCalls(c, n - 1)
                    prior == Transforms(made)
                    i     == calls[n].at
                IN  /\ calls[n].stage = heap[ActSelf(c)].stages[i + 1]
                    /\ Len(prior) = i
                    /\ \A j \in 1..i :
                          /\ prior[j].at = j - 1
                          /\ prior[j].stage = FittedVersion(c, j - 1, made)
                          /\ prior[j].input =
                                IF j = 1 THEN ActInput(c) ELSE prior[j - 1].out
                          /\ prior[j].stage \in DOMAIN heap =>
                                prior[j].out = Through(heap, prior[j].stage,
                                                       prior[j].input, Len(heap))
                    /\ calls[n].input =
                          IF i = 0 THEN ActInput(c) ELSE prior[i].out

\* C9 witness: an Estimator at index 1 was fitted on the output of the
\* Transformer at index 0, and fit returned
C9_Witness ==
    /\ Idle /\ outcome.op = "fit" /\ outcome.status = "ok"
    /\ \E n \in DOMAIN calls :
          /\ calls[n].op = "fit" /\ calls[n].depth = 1 /\ calls[n].at = 1
          /\ calls[n].input = Apply(heap[outcome.self].stages[1], outcome.input)
          /\ heap[calls[n].res].fit_on = calls[n].input

\* whether activation c has returned, and the table a transform returned
ActReturned(c) ==
    IF c = 0 THEN outcome.status = "ok"
    ELSE calls[c].out # NoTable \/ calls[c].res # 0

ActTable(c) == IF c = 0 THEN outcome.table ELSE calls[c].out

\* the stage calls of every activation of Pipeline.transform: one transform
\* per stage, in index order, each fed the output of the one before; when
\* the activation has returned, every stage was called and the table
\* returned is the last output (the input, for a pipeline without stages)
C10_Trace ==
    \A c \in Activations("transform") :
        LET made == ActCalls(c, ActEnd(c))
            S    == heap[ActSelf(c)].stages
        IN  /\ Len(made) <= Len(S)
            /\ \A j \in DOMAIN made :
                  /\ made[j].op = "transform"
                  /\ made[j].at = j - 1
                  /\ made[j].stage = S[j]
                  /\ made[j].input =
                        IF j = 1 THEN ActInput(c) ELSE made[j - 1].out
                  /\ j < Len(made) \/ ActReturned(c) =>
                        made[j].out = Through(heap, S[j], made[j].input, Len(heap))
            /\ ActReturned(c) =>
                  /\ Len(made) = Len(S)
                  /\ ~need_fit(heap, ActSelf(c))
                  /\ ActTable(c) =
                        IF S = <<>> THEN ActInput(c) ELSE made[Len(S)].out

\* C10: transform on a pipeline whose need_fit() is false calls transform on
\* each stage once, in index order, piping each output into the next call,
\* returns the last output, and changes no object.
C10_Transform ==
    [][/\ C10_Trace'
       /\ outcome'.op = "transform" => heap' = heap]_vars

\* C10 witness: transform returned for a pipeline of two stages, one of
\* them a nested pipeline that holds a stage itself
C10_Witness ==
    /\ Idle /\ outcome.op = "transform" /\ outcome.status = "ok"
    /\ Len(heap[outcome.self].stages) >= 2
    /\ Len(calls) > Len(heap[outcome.self].stages)
    /\ HasStage(heap, outcome.self, LAMBDA s : IsPipeline(heap, s))
    /\ outcome.table.via # <<>>

\* this step is a stage call that raises: a leaf's fit or transform that
\* fails, or the transform of a nested pipeline that needs fitting
StageFailed ==
    /\ ~Idle
    /\ Len(calls') = Len(calls) + 1
    /\ Last(calls').out = NoTable /\ Last(calls').res = 0
    /\ \/ ~IsPipeline(heap, Last(calls').stage)
       \/ Last(calls').op = "transform" /\ need_fit(heap, Last(calls').stage)

\* the last logged call made at depth d - 1 (0 for the caller's activation)
ChainStart(d) ==
    IF d = 1 THEN 0
    ELSE CHOOSE m \in DOMAIN calls :
             /\ calls[m].depth = d - 1
             /\ \A k \in DOMAIN calls : calls[k].depth = d - 1 => k <= m

\* in each activation that was still running, no call was made on a stage
\* at an index beyond the one whose call failed
NoLaterStage ==
    \A d \in 1..Last(calls).depth :
        LET mine == {n \in DOMAIN calls :
                        n > ChainStart(d) /\ calls[n].depth = d}
            last == CHOOSE n \in mine : \A k \in mine : k <= n
        IN  /\ calls[last].out = NoTable /\ calls[last].res = 0
            /\ \A n \in mine : calls[n].at <= calls[last].at

\* C11: when a stage call raises inside fit or transform, the whole call
\* ends with that error at once: every frame is gone, no stage at a later
\* index was called, nothing is returned, and the heap is as it was before
\* the call; and a running call ends in an error only in this way.
C11_StageFailureAborts ==
    [][/\ StageFailed =>
            /\ stack' = <<>>
            /\ SubSeq(calls', 1, Len(calls)) = calls
            /\ outcome'.status \in {"StageError", "NotFitted", "AttributeError"}
            /\ outcome'.status = "NotFitted" <=> IsPipeline(heap, Last(calls').stage)
            /\ outcome'.value = 0 /\ outcome'.table = NoTable
            /\ heap' = SubSeq(heap, 1, outcome.base)
            /\ SameObjects
            /\ NoLaterStage'
       /\ outcome.status = "running" /\ outcome'.status \notin {"running", "ok"}
            => StageFailed]_vars

\* C11 witness: a stage call failed inside fit after an earlier stage had
\* been fitted, with a further stage still to come
C11_Witness ==
    /\ Idle /\ outcome.op = "fit" /\ outcome.status = "StageError"
    /\ Len(calls) >= 2
    /\ Last(calls).depth = 1
    /\ Last(calls).at + 1 < Len(heap[outcome.self].stages)
    /\ Last(calls).at <= heap[outcome.self].last_estimator_index

\* the caller calls fit a second time, on the same pipeline with the same
\* input, right after the first call returned; arg remembers the first result
CallFitAgain ==
    /\ Idle
    /\ outcome.op = "fit" /\ outcome.status = "ok" /\ outcome.arg = 0
    /\ stack' = <<FitFrame(outcome.self, outcome.input, 0)>>
    /\ calls' = <<>>
    /\ outcome' = [outcome EXCEPT !.arg = outcome.value, !.status = "running",
                                  !.value = 0, !.base = Len(heap)]
    /\ UNCHANGED heap

NextAgain == Next \/ CallFitAgain

SpecAgain == Init /\ [][NextAgain]_vars

RECURSIVE CanonTable(_, _)
RECURSIVE CanonStage(_, _)
RECURSIVE TransformOf(_, _, _, _)

\* a table up to the identity of the Models applied to it: a Model is what
\* its estimator made of the table it was fitted on
CanonTable(h, x) ==
    [src |-> x.src, via |-> [k \in DOMAIN x.via |-> CanonStage(h, x.via[k])]]

CanonStage(h, s) ==
    IF h[s].kind = "Model"
    THEN [id |-> 0, est |-> h[s].est, on |-> CanonTable(h, h[s].fit_on)]
    ELSE [id |-> s, est |-> 0, on |-> CanonTable(h, NoTable)]

Raised(e) == [src |-> e, via |-> <<>>]

\* what t.transform(t_env, x) gives, an error included; n bounds the nesting
TransformOf(h, t, x, n) ==
    IF x.src \notin Inputs THEN x
    ELSE IF ~IsPipeline(h, t)
    THEN IF IsTransformer(h, t) THEN Apply(t, x) ELSE Raised("AttributeError")
    ELSE IF need_fit(h, t) THEN Raised("NotFitted")
    ELSE IF n = 0 THEN Raised("RecursionError")
    ELSE LET Run[k \in 0..Len(h[t].stages)] ==
                 IF k = 0 THEN x
                 ELSE TransformOf(h, h[t].stages[k], Run[k - 1], n - 1)
         IN  Run[Len(h[t].stages)]

\* a second fit of the same pipeline on the same input has returned
FittedTwice ==
    /\ Idle /\ outcome.op = "fit" /\ outcome.status = "ok" /\ outcome.arg # 0

\* C12: when fit is called twice on the same pipeline with the same input
\* and nothing changed in between, the two Pipelines returned give equal
\* transform results on every input (equal tables up to the identity of the
\* Models, or the same error), and need_fit() answers the same on both.
C12_FitDeterministic ==
    FittedTwice =>
        /\ outcome.arg # outcome.value
        /\ need_fit(heap, outcome.arg) <=> need_fit(heap, outcome.value)
        /\ \A x \in Inputs :
               CanonTable(heap, TransformOf(heap, outcome.arg, Table(x), Len(heap)))
               = CanonTable(heap, TransformOf(heap, outcome.value, Table(x), Len(heap)))

\* C12 witness: two fits returned, and transform of the results goes through
\* a Model that each fit made for itself
C12_Witness ==
    /\ FittedTwice
    /\ ~need_fit(heap, outcome.value)
    /\ \E k \in DOMAIN heap[outcome.value].stages :
           /\ heap[heap[outcome.value].stages[k]].kind = "Model"
           /\ heap[outcome.value].stages[k] # heap[outcome.arg].stages[k]

\* ------------------------------------------------------------- json
\* to_json: jsonpickle.encode(self) writes down the pipeline and every
\* object reached from it, each once, with its class and its fields
to_json(h, p) ==
    [root |-> p, objects |-> [o \in Reach(h, {p}, Len(h)) |-> h[o]]]

\* the position of object o among the objects written in the json
Rank(json, o) == Cardinality({r \in DOMAIN json.objects : r <= o})

\* the new object that jsonpickle.decode makes for the written object o,
\* when the objects before it were the first base ones
decoded_id(json, base, o) == base + Rank(json, o)

RECURSIVE decoded_stages(_, _, _)
\* a written list of stages, each reference now naming the decoded object
decoded_stages(json, base, ss) ==
    IF ss = <<>> THEN <<>>
    ELSE <<decoded_id(json, base, Head(ss))>>
         \o decoded_stages(json, base, Tail(ss))

RECURSIVE decode(_, _, _, _)
\* jsonpickle.decode: the heap with the first k written objects rebuilt,
\* the fields set as written (no constructor, no append_stage runs)
decode(h, json, base, k) ==
    IF k = 0 THEN h
    ELSE LET o == CHOOSE r \in DOMAIN json.objects : Rank(json, r) = k
         IN  Append(decode(h, json, base, k - 1),
                    [json.objects[o] EXCEPT
                         !.stages = decoded_stages(json, base, @)])

\* load_json: decode, then append_stage for each stage of the decoded pipeline
load_json(h, q, json) ==
    LET d == decode(h, json, Len(h), Cardinality(DOMAIN json.objects))
        pipeline == decoded_id(json, Len(h), json.root)
    IN  append_all(d, q, d[pipeline].stages)

\* Pipeline(pipeline_json=json): a new empty pipeline, then load_json
PipelineOfJson(h, json) ==
    LET id == Len(h) + 1
        r  == load_json(Append(h, EmptyPipeline), id, json)
    IN  [raised |-> r.raised, heap |-> r.heap, id |-> id]

\* caller: Pipeline(pipeline_json=p.to_json())
PipelineFromJson(p) ==
    /\ Idle
    /\ IsPipeline(heap, p)
    /\ Len(heap) <= MaxLive
    /\ LET r == PipelineOfJson(heap, to_json(heap, p))
       IN  /\ heap' = IF r.raised THEN heap ELSE r.heap
           /\ outcome' = [op |-> "load_json", self |-> r.id, arg |-> p,
                          input |-> NoTable,
                          status |-> IF r.raised THEN "InvalidStage" ELSE "ok",
                          value |-> IF r.raised THEN 0 ELSE r.id,
                          table |-> NoTable, base |-> Len(heap)]
    /\ calls' = <<>>
    /\ UNCHANGED stack

\* caller: q.load_json(p.to_json()) on a pipeline q that exists already
LoadJson(q, p) ==
    /\ Idle
    /\ IsPipeline(heap, q) /\ IsPipeline(heap, p)
    /\ Len(heap) <= MaxLive
    /\ LET r == load_json(heap, q, to_json(heap, p))
       IN  /\ heap' = r.heap
           /\ outcome' = [op |-> "load_json", self |-> q, arg |-> p,
                          input |-> NoTable,
                          status |-> IF r.raised THEN "InvalidStage" ELSE "ok",
                          value |-> 0, table |-> NoTable, base |-> Len(heap)]
    /\ calls' = <<>>
    /\ UNCHANGED stack

NextJson ==
    \/ Next
    \/ \E p \in DOMAIN heap : PipelineFromJson(p)
    \/ \E q \in DOMAIN heap, p \in DOMAIN heap : LoadJson(q, p)

SpecJson == Init /\ [][NextJson]_vars

RECURSIVE Equivalent(_, _, _, _)
\* objects a and b are of the same class with equal fields, their stages
\* equivalent in the same order, compared to nesting depth n
Equivalent(h, a, b, n) ==
    /\ h[a].kind = h[b].kind
    /\ h[a].est = h[b].est /\ h[a].fit_on = h[b].fit_on
    /\ h[a].last_estimator_index = h[b].last_estimator_index
    /\ Len(h[a].stages) = Len(h[b].stages)
    /\ n > 0 => \A k \in DOMAIN h[a].stages :
                    Equivalent(h, h[a].stages[k], h[b].stages[k], n - 1)

\* the caller built a pipeline from the json of pipeline outcome.arg
BuiltFromJson ==
    /\ outcome.op = "load_json" /\ outcome.status = "ok" /\ outcome.value # 0

\* C13: a Pipeline built from p.to_json() has as many stages as p, each
\* equivalent to the stage of p at the same index, and p's
\* last_estimator_index.
C13_RoundTrip ==
    BuiltFromJson =>
        LET p == outcome.arg
            q == outcome.value
        IN  /\ Len(heap[q].stages) = Len(heap[p].stages)
            /\ \A k \in DOMAIN heap[p].stages :
                   Equivalent(heap, heap[q].stages[k], heap[p].stages[k], MaxDepth)
            /\ heap[q].last_estimator_index = heap[p].last_estimator_index

\* the greatest index of p holding a stage that needs fitting now, or -1
LastNeedingFit(h, p) ==
    LET need == {i \in 0..(Len(h[p].stages) - 1) :
                     is_stage_need_fit(h, h[p].stages[i + 1])}
    IN  IF need = {} THEN -1
        ELSE CHOOSE i \in need : \A j \in need : j <= i

\* C14: in every reachable state, every pipeline's last_estimator_index is
\* the greatest index whose stage needs fitting now, or -1 when none does.
C14_InvariantA ==
    \A p \in Pipelines(heap) :
        heap[p].last_estimator_index = LastNeedingFit(heap, p)

\* C15: a successful p.append_stage(s) on a pipeline of n stages leaves p
\* with its old stages followed by s, sets last_estimator_index to n when s
\* needs fitting and leaves it as it was otherwise, changes no other object
\* and returns p; so whenever last_estimator_index is not -1, the stage at
\* that index is one that needs fitting.
C15_AppendStage ==
    [][/\ \A p \in DOMAIN heap, s \in DOMAIN heap :
              AppendCalled(p, s) /\ outcome'.status = "ok" =>
                  /\ DOMAIN heap' = DOMAIN heap
                  /\ heap'[p].stages = Append(heap[p].stages, s)
                  /\ heap'[p].stages[Len(heap[p].stages) + 1] = s
                  /\ heap'[p].last_estimator_index =
                         IF is_stage_need_fit(heap, s)
                         THEN Len(heap[p].stages)
                         ELSE heap[p].last_estimator_index
                  /\ heap'[p].kind = "Pipeline"
                  /\ \A o \in DOMAIN heap \ {p} : heap'[o] = heap[o]
                  /\ outcome'.value = p
       /\ \A p \in Pipelines(heap') :
              heap'[p].last_estimator_index >= 0 =>
                  /\ heap'[p].last_estimator_index < Len(heap'[p].stages)
                  /\ is_stage_need_fit(heap',
                         heap'[p].stages[heap'[p].last_estimator_index + 1])]_vars

\* C15 witness: a Transformer was appended after an Estimator, and the index
\* stayed at the Estimator
C15_Witness ==
    /\ outcome.op = "append_stage" /\ outcome.status = "ok"
    /\ Len(heap[outcome.self].stages) >= 2
    /\ Last(heap[outcome.self].stages) = outcome.arg
    /\ ~is_stage_need_fit(heap, outcome.arg)
    /\ heap[outcome.self].last_estimator_index = Len(heap[outcome.self].stages) - 2

\* stage s needs fitting in heap h, read off its class and fields: a
\* Pipeline when its own index is set, any other stage when it is an Estimator
NeedsFitting(h, s) ==
    IF h[s].kind = "Pipeline" THEN h[s].last_estimator_index >= 0
    ELSE h[s].kind = "Estimator"

\* C16: append_stage classifies the stage as it is when appended: a nested
\* Pipeline needs fitting iff its need_fit() is true then, another stage iff
\* it is an Estimator. A nested pipeline is always accepted; one with
\* need_fit() false leaves the outer last_estimator_index as it was, one
\* with need_fit() true sets it to the new index; a stage that needs no
\* fitting and is no Transformer is refused.
C16_Classification ==
    [][\A p \in DOMAIN heap, s \in DOMAIN heap :
           AppendCalled(p, s) =>
               LET n == Len(heap[p].stages)
               IN  /\ heap[s].kind = "Pipeline" => outcome'.status = "ok"
                   /\ NeedsFitting(heap, s) =>
                          /\ outcome'.status = "ok"
                          /\ heap'[p].last_estimator_index = n
                   /\ ~NeedsFitting(heap, s) =>
                          /\ heap'[p].last_estimator_index
                                 = heap[p].last_estimator_index
                          /\ outcome'.status = "ok"
                                 <=> heap[s].kind \in {"Transformer", "Model", "Pipeline"}]_vars

\* C16 witness: a nested pipeline with need_fit() true was appended at
\* index 1 of another pipeline, whose index is now 1
C16_Witness ==
    /\ outcome.op = "append_stage" /\ outcome.status = "ok"
    /\ outcome.arg # outcome.self
    /\ heap[outcome.arg].kind = "Pipeline"
    /\ heap[outcome.arg].last_estimator_index >= 0
    /\ Len(heap[outcome.self].stages) = 2
    /\ heap[outcome.self].stages[2] = outcome.arg
    /\ ~NeedsFitting(heap, heap[outcome.self].stages[1])
    /\ heap[outcome.self].last_estimator_index = 1

\* a logged stage call has returned
Completed(e) == IF e.op = "fit" THEN e.res # 0 ELSE e.out # NoTable

\* C17: the stage calls that one run of Pipeline.fit makes come one after
\* the other in ascending index order: at an index first the fit of the
\* stage, when it needs fitting, then one transform of the fitted stage,
\* each call returned before the next is made; no call is made at an index
\* greater than last_estimator_index, and a run that returns has made
\* exactly last_estimator_index + 1 transform calls.
C17_FitOrder ==
    \A c \in Activations("fit") :
        LET made == ActCalls(c, ActEnd(c))
            S    == heap[ActSelf(c)].stages
            lei  == heap[ActSelf(c)].last_estimator_index
        IN  /\ \A j \in DOMAIN made :
                  /\ made[j].at <= lei
                  /\ j < Len(made) =>
                        /\ Completed(made[j])
                        /\ made[j].at <= made[j + 1].at
                        /\ made[j].at = made[j + 1].at =>
                              made[j].op = "fit" /\ made[j + 1].op = "transform"
                  /\ made[j].op = "fit" =>
                        /\ made[j].stage = S[made[j].at + 1]
                        /\ is_stage_need_fit(heap, made[j].stage)
                  /\ made[j].op = "transform" =>
                        IF is_stage_need_fit(heap, S[made[j].at + 1])
                        THEN /\ j > 1
                             /\ made[j - 1].op = "fit"
                             /\ made[j - 1].at = made[j].at
                             /\ made[j].stage = made[j - 1].res
                        ELSE made[j].stage = S[made[j].at + 1]
            /\ \A j \in DOMAIN Transforms(made) : Transforms(made)[j].at = j - 1
            /\ ActReturned(c) => Len(Transforms(made)) = lei + 1

\* C17 witness: fit returned for a pipeline of a Transformer, an Estimator
\* and a further stage: transform, fit, transform were called, none on the
\* last stage
C17_Witness ==
    /\ Idle /\ outcome.op = "fit" /\ outcome.status = "ok"
    /\ Len(heap[outcome.self].stages) = 3
    /\ heap[outcome.self].last_estimator_index = 1
    /\ Len(calls) = 3
    /\ calls[1].op = "transform" /\ calls[1].at = 0
    /\ calls[2].op = "fit" /\ calls[2].at = 1
    /\ calls[3].op = "transform" /\ calls[3].at = 1

\* every pipeline's index is -1 or the index of one of its stages, and
\* need_fit() is true exactly when the index is not -1
IndexInBounds ==
    \A p \in Pipelines(heap) :
        /\ -1 <= heap[p].last_estimator_index
        /\ heap[p].last_estimator_index < Len(heap[p].stages)
        /\ need_fit(heap, p) <=> heap[p].last_estimator_index >= 0

\* no step makes a pipeline's index or its number of stages smaller
IndexMonotone ==
    \A p \in Pipelines(heap) \cap DOMAIN heap' :
        /\ IsPipeline(heap', p)
        /\ heap'[p].last_estimator_index >= heap[p].last_estimator_index
        /\ Len(heap'[p].stages) >= Len(heap[p].stages)
        /\ need_fit(heap, p) => need_fit(heap', p)

\* C18: in every reachable state -1 <= last_estimator_index < len(stages)
\* for every pipeline and need_fit() is true iff last_estimator_index >= 0;
\* across append_stage, load_json, fit and transform neither
\* last_estimator_index nor len(stages) of a pipeline ever decreases, so a
\* pipeline that needs fitting needs fitting ever after.
C18_BoundsMonotone == []IndexInBounds /\ [][IndexMonotone]_vars

\* C18 witness: load_json appended decoded stages to a pipeline that already
\* held an Estimator; its index stayed where it was, below the new length
C18_Witness ==
    /\ outcome.op = "load_json" /\ outcome.status = "ok" /\ outcome.value = 0
    /\ heap[outcome.self].last_estimator_index >= 0
    /\ heap[outcome.self].last_estimator_index + 1 < Len(heap[outcome.self].stages)
    /\ Last(heap[outcome.self].stages) > outcome.base

\* ------------------------------------------------------------- frozen nesting
\* pipeline p is a stage of some pipeline
Nested(h, p) ==
    \E q \in Pipelines(h) : \E k \in DOMAIN h[q].stages : h[q].stages[k] = p

\* caller: pipeline.append_stage(stage), by a caller who never appends to a
\* pipeline that is already a stage of a pipeline
AppendStageUnnested(p, s) ==
    /\ ~Nested(heap, p)
    /\ AppendStage(p, s)

NextFrozen ==
    \/ \E p \in DOMAIN heap, s \in DOMAIN heap : AppendStageUnnested(p, s)
    \/ \E p \in DOMAIN heap, x \in Inputs : CallFit(p, x)
    \/ \E p \in DOMAIN heap, x \in Inputs : CallTransform(p, x)
    \/ FitStage
    \/ FitTransform
    \/ FitReturn
    \/ TransformStage
    \/ TransformReturn
    \/ StageRaises

SpecFrozen == Init /\ [][NextFrozen]_vars

\* C19: when no pipeline is appended to after it became a stage of a
\* pipeline, every pipeline reached from a pipeline whose need_fit() is
\* false has need_fit() false as well, and a transform called on a pipeline
\* whose need_fit() is false does not end with the not-fitted error, at
\* whatever depth.
C19_NoNestedNotFitted ==
    /\ \A p \in Pipelines(heap) :
           ~need_fit(heap, p) =>
               \A s \in Reach(heap, {p}, Len(heap)) \cap Pipelines(heap) :
                   ~need_fit(heap, s)
    /\ outcome.op = "transform" /\ ~need_fit(heap, outcome.self) =>
           /\ outcome.status # "NotFitted"
           /\ \A n \in DOMAIN calls :
                  calls[n].op = "transform" /\ calls[n].stage \in Pipelines(heap)
                      => ~need_fit(heap, calls[n].stage)

\* C19 witness: transform returned for a pipeline whose need_fit() is false
\* after it went through a nested pipeline that holds a stage
C19_Witness ==
    /\ Idle /\ outcome.op = "transform" /\ outcome.status = "ok"
    /\ \E n \in DOMAIN calls :
           /\ calls[n].depth = 1 /\ IsPipeline(heap, calls[n].stage)
           /\ calls[n].stage # outcome.self
           /\ heap[calls[n].stage].stages # <<>>

\* ------------------------------------------------------------- acyclic nesting
RECURSIVE Height(_, _, _)
\* how deep pipelines nest below object s, looked at to depth n
Height(h, s, n) ==
    IF ~IsPipeline(h, s) \/ n = 0 THEN 0
    ELSE LET below == {Height(h, h[s].stages[k], n - 1) : k \in DOMAIN h[s].stages}
         IN  1 + (IF below = {} THEN 0
                  ELSE CHOOSE m \in below : \A j \in below : j <= m)

\* caller: pipeline.append_stage(stage), by a caller who makes no pipeline a
\* direct or transitive stage of itself and nests at most MaxDepth deep
AppendStageAcyclic(p, s) ==
    /\ p \notin Reach(heap, {s}, Len(heap))
    /\ AppendStage(p, s)
    /\ \A q \in Pipelines(heap') : Height(heap', q, MaxDepth + 1) <= MaxDepth

\* the running call takes its next step
RunningStep ==
    \/ FitStage
    \/ FitTransform
    \/ FitReturn
    \/ TransformStage
    \/ TransformReturn
    \/ StageRaises

NextAcyclic ==
    \/ \E p \in DOMAIN heap, s \in DOMAIN heap : AppendStageAcyclic(p, s)
    \/ \E p \in DOMAIN heap, x \in Inputs : CallFit(p, x)
    \/ \E p \in DOMAIN heap, x \in Inputs : CallTransform(p, x)
    \/ FitStage
    \/ FitTransform
    \/ FitReturn
    \/ TransformStage
    \/ TransformReturn
    \/ StageRaises

\* fit and transform are synchronous code on one thread and leaf stage
\* calls terminate: a call that has started keeps taking steps
SpecAcyclic == Init /\ [][NextAcyclic]_vars /\ WF_vars(RunningStep)

\* the number of calls of operation o among the stage calls made
Count(made, o) == Len(SelectSeq(made, LAMBDA e : e.op = o))

\* every activation of fit has made at most one fit and one transform per
\* stage, every activation of transform at most one transform per stage,
\* and exactly one per stage once it has returned
CallsBounded ==
    /\ \A c \in Activations("fit") :
           LET made == ActCalls(c, ActEnd(c))
               n    == Len(heap[ActSelf(c)].stages)
           IN  /\ Count(made, "fit") <= n /\ Count(made, "transform") <= n
               /\ \A i, j \in DOMAIN made :
                      made[i].op = made[j].op /\ made[i].at = made[j].at => i = j
    /\ \A c \in Activations("transform") :
           LET made == ActCalls(c, ActEnd(c))
               n    == Len(heap[ActSelf(c)].stages)
           IN  /\ Count(made, "fit") = 0 /\ Count(made, "transform") <= n
               /\ \A i, j \in DOMAIN made : made[i].at = made[j].at => i = j
               /\ ActReturned(c) => Count(made, "transform") = n

\* C20: for pipelines in which no pipeline is a direct or transitive stage
\* of itself, every call of fit or transform that starts comes to an end,
\* having made at most one fit and one transform per stage in each
\* activation of fit and exactly one transform per stage in each activation
\* of transform that returns.
C20_Terminates == []CallsBounded /\ (~Idle ~> Idle)

\* C20 witness: a fit that went into a nested pipeline has returned
C20_Witness ==
    /\ Idle /\ outcome.op = "fit" /\ outcome.status = "ok"
    /\ \E n \in DOMAIN calls : calls[n].depth = 2 /\ calls[n].op = "fit"
    /\ \E n \in DOMAIN calls : calls[n].depth = 2 /\ calls[n].op = "transform"
====
